---- MODULE Spec2Model ----
(***************************************************************************)
(* Model of the /run request handler of runner-rs (src/src/main.rs): one   *)
(* request travelling through deserialization, validation, scratch         *)
(* directory creation, materialization of the submission, spawn of         *)
(* `make test`, the two pipe drainers, wait-with-timeout, and the response.*)
(* The child process, its two bounded pipes and the wall clock are the     *)
(* environment.                                                            *)
(***************************************************************************)
EXTENDS Integers, Sequences, FiniteSets, TLC

\* ---------------------------------------------------------------- bounds
\* capacity of a pipe buffer, in bytes (64 KiB on Linux; scaled down)
PipeCap == 1
\* longest sequence of writes a child performs
MaxWrites == 2

\* ------------------------------------------------------ program constants
DEFAULT_TIMEOUT == 30
SIGKILL == 9

\* Option<T>: None, or Some(x)
None == <<>>
Some(x) == <<x>>

\* --------------------------------------------------------------- requests
\* language tags a client may send (spec glossary)
Tags ==
  {"clojure", "cpp", "csharp", "dart", "elixir", "golang", "haskell", "java",
   "js", "kotlin", "php", "python", "ruby", "rust", "swift", "ts"}

\* enum Lang with serde rename_all = "lowercase"
Lang ==
  {"clojure", "cpp", "csharp", "dart", "elixir", "golang", "haskell", "java",
   "js", "kotlin", "php", "python", "ruby", "rust", "ts"}

\* the matches!(...) list guarding the checker_text check
CheckerRequired(lang) ==
  lang \in {"cpp", "csharp", "dart", "java", "golang", "haskell", "kotlin", "rust"}

\* duration strings, as sequences of characters
Digits == {"0", "1", "2", "3", "4", "5", "6", "7", "8", "9"}

DigitVal(c) ==
  CASE c = "0" -> 0 [] c = "1" -> 1 [] c = "2" -> 2 [] c = "3" -> 3
    [] c = "4" -> 4 [] c = "5" -> 5 [] c = "6" -> 6 [] c = "7" -> 7
    [] c = "8" -> 8 [] c = "9" -> 9

UnitSecs(c) == CASE c = "s" -> 1 [] c = "m" -> 60 [] c = "h" -> 3600

RECURSIVE NumVal(_)
NumVal(s) ==
  IF s = <<>> THEN 0 ELSE 10 * NumVal(SubSeq(s, 1, Len(s) - 1)) + DigitVal(s[Len(s)])

\* duration_str::parse on "<digits><unit>"; -1 stands for Err
ParseDuration(s) ==
  IF /\ Len(s) >= 2
     /\ \A i \in 1..(Len(s) - 1) : s[i] \in Digits
     /\ s[Len(s)] \in {"s", "m", "h"}
  THEN NumVal(SubSeq(s, 1, Len(s) - 1)) * UnitSecs(s[Len(s)])
  ELSE -1

TimeoutInputs == {<<"1", "s">>, <<"2", "s">>, <<"x">>}

\* ----------------------------------------------------------- language arms
F(dir, name, kind) == [dir |-> dir, name |-> name, kind |-> kind]

\* per-language support files linked or copied from cwd, in the arm's order
SupportFiles(lang) ==
  CASE lang = "clojure" -> << F("", "checker.clj", "symlink") >>
    [] lang = "cpp"     -> << F("", "json.hpp", "symlink"), F("", "fifo_map.hpp", "symlink"),
                              F("check", "checker.hpp.gch", "symlink") >>
    [] lang = "csharp"  -> << F("", "Program.cs", "symlink"), F("", "app.csproj", "symlink"),
                              F("", "obj", "symlink") >>
    [] lang = "dart"    -> << F("", "pubspec.yml", "symlink"), F("", "pubspec.lock", "symlink"),
                              F("", ".dart_tool", "symlink") >>
    [] lang = "elixir"  -> << F("", "checker", "copy") >>
    [] lang = "golang"  -> << >>
    [] lang = "haskell" -> << F("", "checker.cabal", "symlink") >>
    [] lang = "java"    -> << F("", "gson.jar", "symlink") >>
    [] lang = "js"      -> << F("", "checker.js", "copy") >>
    [] lang = "ts"      -> << F("", "checker.js", "copy") >>
    [] lang = "kotlin"  -> << F("", "gson.jar", "symlink") >>
    [] lang = "php"     -> << F("", "checker.php", "copy") >>
    [] lang = "python"  -> << F("", "checker.py", "copy") >>
    [] lang = "ruby"    -> << F("", "checker.rb", "copy") >>
    [] lang = "rust"    -> << F("", "Cargo.toml", "symlink"), F("", "Cargo.lock", "symlink"),
                              F("", "target", "symlink") >>

\* CheckerFilename with the fs::write of the Golang arm left out
CheckerFilenameGolangUnwritten(lang) ==
  CASE lang = "cpp" -> Some("checker.cpp")
    [] lang = "csharp" -> Some("Checker.cs")
    [] lang = "dart" -> Some("checker.dart")
    [] lang = "haskell" -> Some("Checker.hs")
    [] lang = "java" -> Some("Checker.java")
    [] lang = "kotlin" -> Some("checker.kt")
    [] lang = "rust" -> Some("checker.rs")
    [] OTHER -> None

\* the checker file the arm writes from checker_text (None: the arm writes none)
CheckerFilename(lang) ==
  CASE lang = "cpp" -> Some("checker.cpp")
    [] lang = "csharp" -> Some("Checker.cs")
    [] lang = "dart" -> Some("checker.dart")
    [] lang = "golang" -> Some("checker.go")
    [] lang = "haskell" -> Some("Checker.hs")
    [] lang = "java" -> Some("Checker.java")
    [] lang = "kotlin" -> Some("checker.kt")
    [] lang = "rust" -> Some("checker.rs")
    [] OTHER -> None

\* solution_filename as assigned by the arm
SolutionFilename(lang) ==
  CASE lang = "clojure" -> "solution.clj"
    [] lang = "cpp" -> "solution.cpp"
    [] lang = "csharp" -> "Solution.cs"
    [] lang = "dart" -> "solution.dart"
    [] lang = "elixir" -> "solution.exs"
    [] lang = "golang" -> "solution.go"
    [] lang = "haskell" -> "Solution.hs"
    [] lang = "java" -> "Solution.java"
    [] lang = "js" -> "solution.js"
    [] lang = "ts" -> "solution.ts"
    [] lang = "kotlin" -> "solution.kt"
    [] lang = "php" -> "solution.php"
    [] lang = "python" -> "solution.py"
    [] lang = "ruby" -> "solution.rb"
    [] lang = "rust" -> "solution.rs"

\* check_path relative to the scratch directory
CheckDir(lang) == IF lang = "dart" THEN "lib" ELSE "check"

\* ------------------------------------------------------------- byte text
\* bytes a child may write: 'A', and the two bytes of U+00E9
Bytes == {65, 195, 169}
Streams == {"out", "err"}

\* length of the UTF-8 sequence a lead byte announces; 0: not a lead byte
LeadLen(b) ==
  IF b < 128 THEN 1
  ELSE IF b \in 194..223 THEN 2
  ELSE IF b \in 224..239 THEN 3
  ELSE IF b \in 240..244 THEN 4
  ELSE 0

SecondRange(b) ==
  CASE b = 224 -> 160..191
    [] b = 237 -> 128..159
    [] b = 240 -> 144..191
    [] b = 244 -> 128..143
    [] OTHER -> 128..191

RECURSIVE Utf8Valid(_)
Utf8Valid(bs) ==
  IF bs = <<>> THEN TRUE
  ELSE LET n == LeadLen(bs[1]) IN
    /\ n > 0
    /\ Len(bs) >= n
    /\ n >= 2 => bs[2] \in SecondRange(bs[1])
    /\ \A i \in 3..n : bs[i] \in 128..191
    /\ Utf8Valid(SubSeq(bs, n + 1, Len(bs)))

RECURSIVE Utf8Decode(_)
Utf8Decode(bs) ==
  IF bs = <<>> THEN <<>>
  ELSE LET n == LeadLen(bs[1])
           cp == CASE n = 1 -> bs[1]
                   [] n = 2 -> (bs[1] - 192) * 64 + (bs[2] - 128)
                   [] n = 3 -> (bs[1] - 224) * 4096 + (bs[2] - 128) * 64 + (bs[3] - 128)
                   [] n = 4 -> (bs[1] - 240) * 262144 + (bs[2] - 128) * 4096
                               + (bs[3] - 128) * 64 + (bs[4] - 128)
       IN <<cp>> \o Utf8Decode(SubSeq(bs, n + 1, Len(bs)))

Utf8EncodeChar(cp) ==
  IF cp < 128 THEN <<cp>>
  ELSE IF cp < 2048 THEN <<192 + (cp \div 64), 128 + (cp % 64)>>
  ELSE IF cp < 65536 THEN <<224 + (cp \div 4096), 128 + ((cp \div 64) % 64), 128 + (cp % 64)>>
  ELSE <<240 + (cp \div 262144), 128 + ((cp \div 4096) % 64),
         128 + ((cp \div 64) % 64), 128 + (cp % 64)>>

RECURSIVE Utf8Encode(_)
Utf8Encode(str) ==
  IF str = <<>> THEN <<>> ELSE Utf8EncodeChar(Head(str)) \o Utf8Encode(Tail(str))

\* read_stdio: read_to_string reads to EOF, then validates the bytes as UTF-8
read_stdio(bs) ==
  IF Utf8Valid(bs) THEN [ok |-> TRUE, text |-> Utf8Decode(bs)]
  ELSE [ok |-> FALSE, text |-> <<>>]

\* ------------------------------------------------------------ child plans
WriteOps == [fd : Streams, byte : Bytes]

RECURSIVE SeqsUpTo(_, _)
SeqsUpTo(S, n) ==
  IF n = 0 THEN {<<>>}
  ELSE LET shorter == SeqsUpTo(S, n - 1)
       IN shorter \cup {Append(q, x) : q \in {r \in shorter : Len(r) = n - 1}, x \in S}

Programs == SeqsUpTo(WriteOps, MaxWrites)

ExitStatuses ==
  {[kind |-> "exited", code |-> 0], [kind |-> "exited", code |-> 1],
   [kind |-> "signaled", code |-> 11]}

\* ExitStatus::code()
ExitCode(st) == IF st.kind = "exited" THEN Some(st.code) ELSE None

\* ------------------------------------------------------------------ state
VARIABLES
  req,                \* the request body as sent (Payload before deserialization)
  childProg,          \* writes the child has still to perform
  childStatus,        \* exit status the child ends with if it is left to finish
  childForks,         \* the child starts a descendant that outlives it
  desc,               \* that descendant: "none", "running", "exited"; it holds
                      \* the write ends of both pipes and is in the child's group
  pc,                 \* position of the handler in run()
  timeout,            \* the parsed timeout, in seconds
  tmp,                \* the scratch directory: "none", "exists", "removed"
  files,              \* entries inside the scratch directory
  solution_filename,
  ops,                \* side effects the handler has performed, in order
  resp,               \* the HTTP response, None while there is none
  outcome,            \* how the handler ended
  rmFailed,           \* remove_dir_all failed in Drop
  child,              \* [state, status] of the spawned process
  childTrace,         \* steps the child performed between fork and exec
  pipe,               \* bytes sitting in each pipe
  wrote,              \* all bytes the child wrote to each stream
  drainer,            \* [state, buf] of each read_stdio task
  elapsed,            \* seconds since the wait began
  exit_status,        \* what child.wait() returned
  timedOut,           \* time::timeout returned Elapsed
  killSent,           \* killpg delivered SIGKILL to the child's group
  joined              \* the strings the handler got from the drainers it joined

\* the PID-1 parent of main() running ashy_slashy
VARIABLES
  rpc,                \* "none", "forever" (in the signal iterator), "wait", "exited"
  pending,            \* signal kinds delivered to the reaper and not yet yielded
  worker,             \* [state, status] of the forked service process
  orphans,            \* [seen, alive, zombie]: processes re-parented to PID 1
  threads,            \* the escalation threads, in the order they were spawned
  delivered,          \* SIGINT/SIGTERM sent to the reaper from outside so far
  rexit,              \* the code the reaper passed to std::process::exit
  failure             \* "none", "wait" (wait() returned Err), "stream"

reaperVars == <<rpc, pending, worker, orphans, threads, delivered, rexit, failure>>

\* one overlay jail of tmpdir.rs: its construction, its use and its drop
VARIABLES
  jail                \* [at, fs, mounts, this, busy, result, log]

\* two requests served at once and the /tmp they share
VARIABLES
  disk,               \* /tmp: for each directory name None or the files in it
  handler,            \* for each request [at, path]
  service             \* the service process: "up" or "exited"

vars ==
  <<req, childProg, childStatus, childForks, desc, pc, timeout, tmp, files, solution_filename, ops,
    resp, outcome, rmFailed, child, childTrace, pipe, wrote, drainer, elapsed,
    exit_status, timedOut, killSent, joined, reaperVars, jail, disk, handler, service>>

handlerVars ==
  <<req, childProg, childStatus, childForks, desc, pc, timeout, tmp, files, solution_filename, ops,
    resp, outcome, rmFailed, child, childTrace, pipe, wrote, drainer, elapsed,
    exit_status, timedOut, killSent, joined>>

\* what no step of run(), of the child or of the drainers changes
\* the state outside the handler of one request
otherVars == <<reaperVars, jail, disk, handler, service>>
inputVars == <<req, childStatus, childForks, desc, otherVars>>
jailVars == <<tmp, files, ops, rmFailed>>
endVars == <<resp, outcome>>
procVars == <<child, childTrace>>
ioVars == <<pipe, wrote, drainer>>
waitVars == <<elapsed, exit_status, timedOut, killSent, joined>>

Payloads ==
  [lang_slug : Tags, solution_text : {"S"}, checker_text : {None, Some("C")},
   asserts : {None, Some("A")}, timeout : {None} \cup {Some(t) : t \in TimeoutInputs}]

\* a request whose child output is under study
PlainPayload ==
  [lang_slug |-> "python", solution_text |-> "S", checker_text |-> None,
   asserts |-> None, timeout |-> Some(<<"1", "s">>)]

\* main() line 462: the process is not PID 1, there is no reaper
NoReaper ==
  /\ rpc = "none"
  /\ pending = {}
  /\ worker = [state |-> "none", status |-> None]
  /\ orphans = [seen |-> 0, alive |-> 0, zombie |-> 0]
  /\ threads = <<>>
  /\ delivered = 0
  /\ rexit = None
  /\ failure = "none"

\* the handler before its first step
HandlerStart ==
  /\ desc = "none"
  /\ pc = "deser"
  /\ timeout = 0
  /\ tmp = "none"
  /\ files = {}
  /\ solution_filename = None
  /\ ops = <<>>
  /\ resp = None
  /\ outcome = "pending"
  /\ rmFailed = FALSE
  /\ child = [state |-> "none", status |-> None]
  /\ childTrace = <<>>
  /\ pipe = [s \in Streams |-> <<>>]
  /\ wrote = [s \in Streams |-> <<>>]
  /\ drainer = [s \in Streams |-> [state |-> "none", buf |-> <<>>]]
  /\ elapsed = 0
  /\ exit_status = None
  /\ timedOut = FALSE
  /\ killSent = FALSE
  /\ joined = [s \in Streams |-> None]

\* one request that no handler has picked up
NoRequest ==
  /\ req = PlainPayload
  /\ childProg = <<>>
  /\ childForks = FALSE
  /\ childStatus = [kind |-> "exited", code |-> 0]
  /\ HandlerStart

\* no jail of tmpdir.rs is under construction
NoJail ==
  jail = [at |-> "none", fs |-> {}, mounts |-> {}, this |-> FALSE, busy |-> FALSE,
          result |-> "none", log |-> <<>>]

\* the pair of concurrent requests is not under study
NoPair ==
  /\ disk = <<>>
  /\ handler = <<>>
  /\ service = "up"

Init ==
  /\ NoReaper
  /\ NoJail
  /\ NoPair
  /\ \/ /\ req \in Payloads
        /\ childProg = <<>>
        /\ childForks = FALSE
     \/ /\ req = PlainPayload
        /\ childProg \in Programs
        /\ childForks = FALSE
     \/ /\ req = PlainPayload
        /\ childProg = <<>>
        /\ childForks = TRUE
  /\ childStatus \in ExitStatuses
  /\ HandlerStart

\* ------------------------------------------------------- leaving the handler
\* an error response carries a text body, a 200 carries the Response as JSON
ErrorResponse(code, text) == Some([status |-> code, body |-> text, json |-> None])
OkResponse(r) == Some([status |-> 200, body |-> "", json |-> Some(r)])

\* impl Drop for TmpDir (main.rs): remove_dir_all, a failure is only logged
DropTmp(rmok, tmpNow, filesNow, opsNow) ==
  IF tmpNow = "exists"
  THEN /\ ops' = Append(opsNow, "remove_dir_all")
       /\ tmp' = IF rmok THEN "removed" ELSE "exists"
       /\ files' = IF rmok THEN {} ELSE filesNow
       /\ rmFailed' = ~rmok
  ELSE /\ ops' = opsNow
       /\ tmp' = tmpNow
       /\ files' = filesNow
       /\ rmFailed' = rmFailed

\* return from run() with a response; locals are dropped
Return(r, rmok, tmpNow, filesNow, opsNow) ==
  /\ resp' = r
  /\ outcome' = "response"
  /\ pc' = "done"
  /\ DropTmp(rmok, tmpNow, filesNow, opsNow)

\* a panic unwinds run(): no response is produced, locals are dropped
Panic(rmok, tmpNow, filesNow, opsNow) ==
  /\ resp' = None
  /\ outcome' = "panic"
  /\ pc' = "done"
  /\ DropTmp(rmok, tmpNow, filesNow, opsNow)

InternalError == ErrorResponse(500, "internal error")

\* ---------------------------------------------------------- handler steps
Entry(dir, name, kind, content) ==
  [dir |-> dir, name |-> name, kind |-> kind, content |-> content]

\* web::Json<Payload>: a lang_slug outside enum Lang fails deserialization and
\* the extractor answers 400 without calling run()
Deserialize ==
  /\ pc = "deser"
  /\ IF req.lang_slug \in Lang
     THEN /\ pc' = "parse_timeout"
          /\ UNCHANGED <<jailVars, endVars>>
     ELSE Return(ErrorResponse(400, "json deserialize error"), TRUE, tmp, files, ops)
  /\ UNCHANGED <<inputVars, childProg, timeout, solution_filename, procVars, ioVars, waitVars>>

\* let timeout = match payload.timeout { ... }
ParseTimeout ==
  /\ pc = "parse_timeout"
  /\ LET t == IF req.timeout = None THEN DEFAULT_TIMEOUT ELSE ParseDuration(req.timeout[1])
     IN IF t < 0
        THEN /\ Return(ErrorResponse(400, "wrong timeout format"), TRUE, tmp, files, ops)
             /\ UNCHANGED timeout
        ELSE /\ timeout' = t
             /\ pc' = "check_checker"
             /\ UNCHANGED <<jailVars, endVars>>
  /\ UNCHANGED <<inputVars, childProg, solution_filename, procVars, ioVars, waitVars>>

\* ValidateChecker with the check placed after TmpDir::new(): the scratch
\* directory exists (and is dropped again) by the time the 400 is returned
ValidateCheckerAfterTmpDir ==
  /\ pc = "check_checker"
  /\ IF CheckerRequired(req.lang_slug) /\ req.checker_text = None
     THEN Return(ErrorResponse(400, "checker_text is required"), TRUE, "exists", files,
                 Append(ops, "create_dir:tmp"))
     ELSE /\ pc' = "tmpdir_new"
          /\ UNCHANGED <<jailVars, endVars>>
  /\ UNCHANGED <<inputVars, childProg, timeout, solution_filename, procVars, ioVars, waitVars>>

\* if matches!(payload.lang_slug, ...) { if payload.checker_text.is_none() { return 400 } }
ValidateChecker ==
  /\ pc = "check_checker"
  /\ IF CheckerRequired(req.lang_slug) /\ req.checker_text = None
     THEN Return(ErrorResponse(400, "checker_text is required"), TRUE, tmp, files, ops)
     ELSE /\ pc' = "tmpdir_new"
          /\ UNCHANGED <<jailVars, endVars>>
  /\ UNCHANGED <<inputVars, childProg, timeout, solution_filename, procVars, ioVars, waitVars>>

\* TmpDir::new(): fs::create_dir("/tmp/<uuid>")
TmpDirNew ==
  /\ pc = "tmpdir_new"
  /\ \E ok \in BOOLEAN :
       IF ok
       THEN /\ tmp' = "exists"
            /\ ops' = Append(ops, "create_dir:tmp")
            /\ pc' = "current_dir"
            /\ UNCHANGED <<files, rmFailed, endVars>>
       ELSE Return(InternalError, TRUE, tmp, files, ops)
  /\ UNCHANGED <<inputVars, childProg, timeout, solution_filename, procVars, ioVars, waitVars>>

\* std::env::current_dir()
CurrentDir ==
  /\ pc = "current_dir"
  /\ \E ok, rmok \in BOOLEAN :
       IF ok
       THEN /\ pc' = "create_check_dir"
            /\ UNCHANGED <<jailVars, endVars>>
       ELSE Return(InternalError, rmok, tmp, files, ops)
  /\ UNCHANGED <<inputVars, childProg, timeout, solution_filename, procVars, ioVars, waitVars>>

\* fs::create_dir(&check_path)
CreateCheckDir ==
  /\ pc = "create_check_dir"
  /\ \E ok, rmok \in BOOLEAN :
       IF ok
       THEN /\ files' = files \cup {Entry("", CheckDir(req.lang_slug), "dir", "")}
            /\ ops' = Append(ops, "create_dir:check")
            /\ pc' = "symlink_makefile"
            /\ UNCHANGED <<tmp, rmFailed, endVars>>
       ELSE Return(InternalError, rmok, tmp, files, ops)
  /\ UNCHANGED <<inputVars, childProg, timeout, solution_filename, procVars, ioVars, waitVars>>

\* unix::fs::symlink(cwd.join("Makefile"), tmp_path.join("Makefile"))
SymlinkMakefile ==
  /\ pc = "symlink_makefile"
  /\ \E ok, rmok \in BOOLEAN :
       IF ok
       THEN /\ files' = files \cup {Entry("", "Makefile", "symlink", "cwd")}
            /\ ops' = Append(ops, "symlink")
            /\ pc' = "write_asserts"
            /\ UNCHANGED <<tmp, rmFailed, endVars>>
       ELSE Return(InternalError, rmok, tmp, files, ops)
  /\ UNCHANGED <<inputVars, childProg, timeout, solution_filename, procVars, ioVars, waitVars>>

\* if let Some(ref asserts) = payload.asserts { fs::write(asserts.json) }
WriteAsserts ==
  /\ pc = "write_asserts"
  /\ \E ok, rmok \in BOOLEAN :
       IF req.asserts = None
       THEN /\ pc' = "lang_arm"
            /\ UNCHANGED <<jailVars, endVars>>
       ELSE IF ok
       THEN /\ files' = files \cup
                  {Entry(CheckDir(req.lang_slug), "asserts.json", "file", req.asserts[1])}
            /\ ops' = Append(ops, "write")
            /\ pc' = "lang_arm"
            /\ UNCHANGED <<tmp, rmFailed, endVars>>
       ELSE Return(InternalError, rmok, tmp, files, ops)
  /\ UNCHANGED <<inputVars, childProg, timeout, solution_filename, procVars, ioVars, waitVars>>

\* the first k support files of the arm, as directory entries
Supported(lang, k) ==
  {Entry(SupportFiles(lang)[i].dir, SupportFiles(lang)[i].name,
         SupportFiles(lang)[i].kind, "cwd") : i \in 1..k}

RECURSIVE SupportOps(_, _)
SupportOps(lang, k) ==
  IF k = 0 THEN <<>>
  ELSE Append(SupportOps(lang, k - 1),
              IF SupportFiles(lang)[k].kind = "copy" THEN "copy" ELSE "symlink")

\* match payload.lang_slug { ... }: solution_filename, the support files taken
\* from cwd (k of them succeed), then the checker written from checker_text
LangArm ==
  /\ pc = "lang_arm"
  /\ LET lang == req.lang_slug
         n == Len(SupportFiles(lang))
     IN \E k \in 0..n, okc, rmok \in BOOLEAN :
          LET linked == files \cup Supported(lang, k)
              linkOps == ops \o SupportOps(lang, k)
          IN /\ solution_filename' = Some(SolutionFilename(lang))
             /\ IF k < n
                THEN Return(InternalError, rmok, tmp, linked, linkOps)
                ELSE IF CheckerFilename(lang) = None
                THEN /\ files' = linked
                     /\ ops' = linkOps
                     /\ pc' = "write_solution"
                     /\ UNCHANGED <<tmp, rmFailed, endVars>>
                ELSE IF req.checker_text = None
                THEN Panic(rmok, tmp, linked, linkOps)
                ELSE IF okc
                THEN /\ files' = linked \cup
                           {Entry(CheckDir(lang), CheckerFilename(lang)[1], "file",
                                  req.checker_text[1])}
                     /\ ops' = Append(linkOps, "write")
                     /\ pc' = "write_solution"
                     /\ UNCHANGED <<tmp, rmFailed, endVars>>
                ELSE Return(InternalError, rmok, tmp, linked, linkOps)
  /\ UNCHANGED <<inputVars, childProg, timeout, procVars, ioVars, waitVars>>

\* fs::write(check_path.join(solution_filename), payload.solution_text)
WriteSolution ==
  /\ pc = "write_solution"
  /\ \E ok, rmok \in BOOLEAN :
       IF ok
       THEN /\ files' = files \cup
                  {Entry(CheckDir(req.lang_slug), solution_filename[1], "file",
                         req.solution_text)}
            /\ ops' = Append(ops, "write")
            /\ pc' = "spawn"
            /\ UNCHANGED <<tmp, rmFailed, endVars>>
       ELSE Return(InternalError, rmok, tmp, files, ops)
  /\ UNCHANGED <<inputVars, childProg, timeout, solution_filename, procVars, ioVars, waitVars>>

\* what the child does between fork and exec: Command::process_group(0)
PreExec == <<"setpgid">>

\* Command::from(cmd).spawn().unwrap(): make --silent -C tmp_path test
Spawn ==
  /\ pc = "spawn"
  /\ \E ok, rmok \in BOOLEAN :
       IF ok
       THEN /\ child' = [state |-> "running", status |-> None]
            /\ childTrace' = Append(PreExec, "exec")
            /\ ops' = Append(ops, "spawn")
            /\ pc' = "start_drainers"
            /\ UNCHANGED <<tmp, files, rmFailed, endVars>>
       ELSE /\ Panic(rmok, tmp, files, ops)
            /\ UNCHANGED procVars
  /\ UNCHANGED <<inputVars, childProg, timeout, solution_filename, ioVars, waitVars>>

\* StartDrainers with the two task::spawn calls moved below the wait: the
\* handler starts waiting with no reader on either pipe
StartDrainersAfterWait ==
  /\ pc = "start_drainers"
  /\ pc' = "wait"
  /\ UNCHANGED <<inputVars, childProg, timeout, solution_filename, jailVars, endVars,
                 procVars, ioVars, waitVars>>

\* task::spawn(read_stdio(stdout)); task::spawn(read_stdio(stderr))
StartDrainers ==
  /\ pc = "start_drainers"
  /\ drainer' = [s \in Streams |-> [state |-> "running", buf |-> <<>>]]
  /\ pc' = "wait"
  /\ UNCHANGED <<inputVars, childProg, timeout, solution_filename, jailVars, endVars,
                 procVars, pipe, wrote, waitVars>>

\* time::timeout(timeout, child.wait()) returns Ok(c); c is the io::Result of wait
WaitChild ==
  /\ pc = "wait"
  /\ child.state = "exited"
  /\ \E ok, rmok \in BOOLEAN :
       IF ok
       THEN /\ exit_status' = child.status
            /\ pc' = "join_stdout"
            /\ UNCHANGED <<jailVars, endVars>>
       ELSE /\ Return(InternalError, rmok, tmp, files, ops)
            /\ UNCHANGED exit_status
  /\ UNCHANGED <<inputVars, childProg, timeout, solution_filename, procVars, ioVars,
                 elapsed, timedOut, killSent, joined>>

\* time::timeout(...) returns Err(Elapsed): killpg(pid, SIGKILL), then 408;
\* a failed killpg ends the service process with std::process::exit(1)
Timeout ==
  /\ pc = "wait"
  /\ child.state = "running"
  /\ elapsed >= timeout
  /\ timedOut' = TRUE
  /\ \E killok, rmok \in BOOLEAN :
       IF killok
       THEN /\ killSent' = TRUE
            /\ Return(ErrorResponse(408, "timelimit exceeded"), rmok, tmp, files,
                      Append(ops, "killpg"))
       ELSE /\ killSent' = killSent
            /\ resp' = None
            /\ outcome' = "process_exit"
            /\ pc' = "done"
            /\ UNCHANGED jailVars
  /\ UNCHANGED <<inputVars, childProg, timeout, solution_filename, procVars, ioVars,
                 elapsed, exit_status, joined>>

\* stdout_handle.await ... ??
JoinStdout ==
  /\ pc = "join_stdout"
  /\ drainer["out"].state = "done"
  /\ LET r == read_stdio(drainer["out"].buf)
     IN \E rmok \in BOOLEAN :
          IF r.ok
          THEN /\ joined' = [joined EXCEPT !["out"] = Some(r.text)]
               /\ pc' = "join_stderr"
               /\ UNCHANGED <<jailVars, endVars>>
          ELSE /\ Return(ErrorResponse(500, "stream did not contain valid UTF-8"),
                         rmok, tmp, files, ops)
               /\ UNCHANGED joined
  /\ UNCHANGED <<inputVars, childProg, timeout, solution_filename, procVars, ioVars,
                 elapsed, exit_status, timedOut, killSent>>

\* stderr_handle.await ... ??, then Ok(web::Json(Response { ... }))
JoinStderr ==
  /\ pc = "join_stderr"
  /\ drainer["err"].state = "done"
  /\ LET r == read_stdio(drainer["err"].buf)
     IN \E rmok \in BOOLEAN :
          IF r.ok
          THEN /\ joined' = [joined EXCEPT !["err"] = Some(r.text)]
               /\ Return(OkResponse([exit_code |-> ExitCode(exit_status[1]),
                                      stdout |-> joined["out"][1], stderr |-> r.text]),
                         rmok, tmp, files, ops)
          ELSE /\ Return(ErrorResponse(500, "stream did not contain valid UTF-8"),
                         rmok, tmp, files, ops)
               /\ UNCHANGED joined
  /\ UNCHANGED <<inputVars, childProg, timeout, solution_filename, procVars, ioVars,
                 elapsed, exit_status, timedOut, killSent>>

\* the runtime drops the handler's future at one of its await points
Cancel ==
  /\ pc \in {"wait", "join_stdout", "join_stderr"}
  /\ \E rmok \in BOOLEAN :
       /\ resp' = None
       /\ outcome' = "cancelled"
       /\ pc' = "done"
       /\ DropTmp(rmok, tmp, files, ops)
  /\ UNCHANGED <<inputVars, childProg, timeout, solution_filename, procVars, ioVars,
                 waitVars>>

\* ------------------------------------------------------------ environment
\* the child writes the next byte of its output; it blocks while the pipe is
\* full, and dies of SIGPIPE once the service process is gone
ChildWrite ==
  /\ child.state = "running"
  /\ childProg # <<>>
  /\ LET w == Head(childProg)
     IN IF outcome = "process_exit"
        THEN /\ child' = [state |-> "exited", status |-> Some([kind |-> "signaled", code |-> 13])]
             /\ childProg' = <<>>
             /\ UNCHANGED <<pipe, wrote>>
        ELSE /\ Len(pipe[w.fd]) < PipeCap
             /\ pipe' = [pipe EXCEPT ![w.fd] = Append(@, w.byte)]
             /\ wrote' = [wrote EXCEPT ![w.fd] = Append(@, w.byte)]
             /\ childProg' = Tail(childProg)
             /\ UNCHANGED child
  /\ UNCHANGED <<inputVars, pc, timeout, solution_filename, jailVars, endVars, childTrace,
                 drainer, waitVars>>

\* the child forks a descendant, which inherits its stdout and stderr
ChildFork ==
  /\ child.state = "running"
  /\ childForks
  /\ desc = "none"
  /\ desc' = "running"
  /\ UNCHANGED <<req, childStatus, childForks, childProg, pc, timeout, solution_filename,
                 jailVars, endVars, procVars, ioVars, waitVars, otherVars>>

\* the descendant ends, by itself or by the SIGKILL sent to its group
DescExit ==
  /\ desc = "running"
  /\ desc' = "exited"
  /\ UNCHANGED <<req, childStatus, childForks, childProg, pc, timeout, solution_filename,
                 jailVars, endVars, procVars, ioVars, waitVars, otherVars>>

\* the child has written everything and exits
ChildExit ==
  /\ child.state = "running"
  /\ childProg = <<>>
  /\ childForks => desc # "none"
  /\ child' = [state |-> "exited", status |-> Some(childStatus)]
  /\ UNCHANGED <<inputVars, childProg, pc, timeout, solution_filename, jailVars, endVars,
                 childTrace, ioVars, waitVars>>

\* the SIGKILL sent to the group takes effect
ChildKilled ==
  /\ child.state = "running"
  /\ killSent
  /\ child' = [state |-> "exited", status |-> Some([kind |-> "signaled", code |-> SIGKILL])]
  /\ childProg' = <<>>
  /\ UNCHANGED <<inputVars, pc, timeout, solution_filename, jailVars, endVars, childTrace,
                 ioVars, waitVars>>

\* a read_stdio task takes bytes out of its pipe
Drain ==
  /\ outcome # "process_exit"
  /\ \E s \in Streams :
       /\ drainer[s].state = "running"
       /\ pipe[s] # <<>>
       /\ \E n \in 1..Len(pipe[s]) :
            /\ drainer' = [drainer EXCEPT ![s].buf = @ \o SubSeq(pipe[s], 1, n)]
            /\ pipe' = [pipe EXCEPT ![s] = SubSeq(@, n + 1, Len(@))]
  /\ UNCHANGED <<inputVars, childProg, pc, timeout, solution_filename, jailVars, endVars,
                 procVars, wrote, waitVars>>

\* a read_stdio task reads EOF: the pipe is empty and its write end is closed
DrainEof ==
  /\ outcome # "process_exit"
  /\ child.state = "exited"
  /\ desc # "running"
  /\ \E s \in Streams :
       /\ drainer[s].state = "running"
       /\ pipe[s] = <<>>
       /\ drainer' = [drainer EXCEPT ![s].state = "done"]
  /\ UNCHANGED <<inputVars, childProg, pc, timeout, solution_filename, jailVars, endVars,
                 procVars, pipe, wrote, waitVars>>

\* a second of wall-clock time passes while the handler waits
Tick ==
  /\ pc = "wait"
  /\ elapsed < timeout
  /\ elapsed' = elapsed + 1
  /\ UNCHANGED <<inputVars, childProg, pc, timeout, solution_filename, jailVars, endVars,
                 procVars, ioVars, exit_status, timedOut, killSent, joined>>

Next ==
  \/ Deserialize \/ ParseTimeout \/ ValidateChecker \/ TmpDirNew \/ CurrentDir
  \/ CreateCheckDir \/ SymlinkMakefile \/ WriteAsserts \/ LangArm \/ WriteSolution
  \/ Spawn \/ StartDrainers \/ WaitChild \/ Timeout \/ JoinStdout \/ JoinStderr
  \/ Cancel \/ ChildWrite \/ ChildFork \/ DescExit \/ ChildExit \/ ChildKilled
  \/ Drain \/ DrainEof \/ Tick

Spec == Init /\ [][Next]_vars

\* the handler's synchronous code runs on, the runtime schedules every spawned
\* task, and the operating system schedules the child
LiveSpec ==
  /\ Init /\ [][Next]_vars
  /\ WF_vars(StartDrainers)
  /\ WF_vars(Drain)
  /\ WF_vars(ChildWrite)

\* the handler's own steps
HandlerStep ==
  \/ Deserialize \/ ParseTimeout \/ ValidateChecker \/ TmpDirNew \/ CurrentDir
  \/ CreateCheckDir \/ SymlinkMakefile \/ WriteAsserts \/ LangArm \/ WriteSolution
  \/ Spawn \/ StartDrainers \/ WaitChild \/ Timeout \/ JoinStdout \/ JoinStderr

\* the handler, the drainers, the clock and the child's writes all make
\* progress; nothing obliges the child or its descendant ever to exit
FairSpec ==
  /\ Init /\ [][Next]_vars
  /\ WF_vars(HandlerStep)
  /\ WF_vars(Drain)
  /\ WF_vars(DrainEof)
  /\ WF_vars(Tick)
  /\ WF_vars(ChildWrite)
  /\ WF_vars(ChildFork)

\* ------------------------------------------------------ the PID-1 reaper
\* main() lines 462-475 fork the service and run ashy_slashy in the parent.
\* The signal iterator keeps one flag per registered signal: deliveries of
\* a kind that is already pending are merged into one.

\* how many SIGINT/SIGTERM arrive from outside, how many orphans PID 1 adopts
MaxSignals == 2
MaxOrphans == 2

SIGINT == 2
SIGTERM == 15
SIGCHLD == 17
\* std::thread::sleep(Duration::from_secs(2))
ESC_DELAY == 2

\* Signals::new(&[SIGCHLD, SIGINT, SIGTERM])
Registered == {SIGCHLD, SIGINT, SIGTERM}

\* nix WaitStatus values wait() can return for a terminated child
Exited(code) == [kind |-> "Exited", n |-> code]
Signaled(signo) == [kind |-> "Signaled", n |-> signo]
WorkerCodes == {0, 1}

\* lines 123-127 with the sum of line 125 left out
StatusCodeNoOffset(st) ==
  IF st.kind = "Exited" THEN Some(st.n)
  ELSE IF st.kind = "Signaled" THEN Some(st.n)
  ELSE None

\* lines 123-127: the match on the WaitStatus
StatusCode(st) ==
  IF st.kind = "Exited" THEN Some(st.n)
  ELSE IF st.kind = "Signaled" THEN Some(st.n + 128)
  ELSE None

\* the signals the escalation threads have sent to the worker so far
SentToWorker ==
  UNION {{threads[i].log[j].sig : j \in 1..Len(threads[i].log)} : i \in 1..Len(threads)}

\* what no step of the reaper, its threads or its children changes
besideReaper == <<handlerVars, jail, disk, handler, service>>

ReaperInit ==
  /\ NoRequest
  /\ NoJail
  /\ NoPair
  /\ rpc = "forever"
  /\ pending = {}
  /\ worker = [state |-> "alive", status |-> None]
  /\ orphans = [seen |-> 0, alive |-> 0, zombie |-> 0]
  /\ threads = <<>>
  /\ delivered = 0
  /\ rexit = None
  /\ failure = "none"

Running == rpc \in {"forever", "wait"}

\* std::process::exit(code): the process and its threads end there
ProcessExit(code, why) ==
  /\ rpc' = "exited"
  /\ rexit' = Some(code)
  /\ failure' = why

\* line 103 yields signal s; lines 104-117 spawn the escalation thread
Take ==
  /\ rpc = "forever"
  /\ \E s \in pending :
       /\ pending' = pending \ {s}
       /\ threads' = IF s = SIGINT \/ s = SIGTERM
                     THEN Append(threads, [s |-> s, at |-> "begin", slept |-> 0, log |-> <<>>])
                     ELSE threads
  /\ rpc' = "wait"
  /\ UNCHANGED <<worker, orphans, delivered, rexit, failure, besideReaper>>

\* sig.forever(): the next signal, or the end of the stream (lines 137-138)
NextSignal ==
  \/ Take
  \/ /\ rpc = "forever"
     /\ ProcessExit(1, "stream")
     /\ UNCHANGED <<pending, worker, orphans, threads, delivered, besideReaper>>

\* wait() returns a terminated child, whichever the kernel picks; lines
\* 129-135 exit with its code if it is the worker and go on otherwise
Reap ==
  /\ rpc = "wait"
  /\ \/ /\ worker.state = "zombie"
        /\ worker' = [worker EXCEPT !.state = "reaped"]
        /\ LET r == StatusCode(worker.status[1])
           IN IF r # None
              THEN ProcessExit(r[1], "none")
              ELSE rpc' = "forever" /\ UNCHANGED <<rexit, failure>>
        /\ UNCHANGED orphans
     \/ /\ orphans.zombie > 0
        /\ orphans' = [orphans EXCEPT !.zombie = @ - 1]
        \* pid # child: "Reaped zombie", whatever its status
        /\ rpc' = "forever"
        /\ UNCHANGED <<worker, rexit, failure>>
  /\ UNCHANGED <<pending, threads, delivered, besideReaper>>

\* line 118: wait() blocks until a child has terminated; Err ends the reaper
Wait ==
  \/ Reap
  \/ /\ rpc = "wait"
     /\ ProcessExit(1, "wait")
     /\ UNCHANGED <<pending, worker, orphans, threads, delivered, besideReaper>>

\* one step of escalation thread i, lines 106-116
EscalateStep(i, intToo) ==
  /\ Running
  /\ i \in 1..Len(threads)
  /\ LET t == threads[i]
         send(sg, nxt) == [t EXCEPT !.log = Append(@, [sig |-> sg, after |-> t.slept]),
                                    !.at = nxt]
         sleep(nxt) == [t EXCEPT !.slept = @ + ESC_DELAY, !.at = nxt]
     IN /\ t.at # "done"
        /\ threads' = [threads EXCEPT ![i] =
             CASE t.at = "begin" -> IF intToo THEN send(SIGINT, "sleep_int") ELSE send(SIGTERM, "sleep_term")
               [] t.at = "sleep_int" -> sleep("term")
               [] t.at = "term" -> send(SIGTERM, "sleep_term")
               [] t.at = "sleep_term" -> sleep("kill")
               [] t.at = "kill" -> send(SIGKILL, "done")]
  /\ UNCHANGED <<rpc, pending, worker, orphans, delivered, rexit, failure, besideReaper>>

\* the thread with the test of line 107 always true
EscalateAlwaysInt(i) == EscalateStep(i, TRUE)

Escalate(i) == EscalateStep(i, threads[i].s = SIGINT)

EscalateAny == \E i \in 1..MaxSignals : Escalate(i)

\* the service ends by itself (a graceful stop on SIGINT/SIGTERM is one case)
WorkerExit ==
  /\ Running
  /\ worker.state = "alive"
  /\ \E c \in WorkerCodes : worker' = [state |-> "zombie", status |-> Some(Exited(c))]
  /\ pending' = pending \cup {SIGCHLD}
  /\ UNCHANGED <<rpc, orphans, threads, delivered, rexit, failure, besideReaper>>

\* a signal the escalation sent ends the service
WorkerSignaled(s) ==
  /\ Running
  /\ worker.state = "alive"
  /\ s \in SentToWorker
  /\ worker' = [state |-> "zombie", status |-> Some(Signaled(s))]
  /\ pending' = pending \cup {SIGCHLD}
  /\ UNCHANGED <<rpc, orphans, threads, delivered, rexit, failure, besideReaper>>

WorkerKilled == \E s \in {SIGINT, SIGTERM, SIGKILL} : WorkerSignaled(s)

\* a process whose parent died is re-parented to PID 1
OrphanAdopted ==
  /\ Running
  /\ orphans.seen < MaxOrphans
  /\ orphans' = [orphans EXCEPT !.seen = @ + 1, !.alive = @ + 1]
  /\ UNCHANGED <<rpc, pending, worker, threads, delivered, rexit, failure, besideReaper>>

OrphanExit ==
  /\ Running
  /\ orphans.alive > 0
  /\ orphans' = [orphans EXCEPT !.alive = @ - 1, !.zombie = @ + 1]
  /\ pending' = pending \cup {SIGCHLD}
  /\ UNCHANGED <<rpc, worker, threads, delivered, rexit, failure, besideReaper>>

\* docker stop, Ctrl-C: a signal sent to PID 1 from outside
Deliver ==
  /\ Running
  /\ delivered < MaxSignals
  /\ \E s \in {SIGINT, SIGTERM} : pending' = pending \cup {s}
  /\ delivered' = delivered + 1
  /\ UNCHANGED <<rpc, worker, orphans, threads, rexit, failure, besideReaper>>

ReaperNext ==
  \/ NextSignal \/ Wait \/ EscalateAny \/ WorkerExit \/ WorkerKilled
  \/ OrphanAdopted \/ OrphanExit \/ Deliver

ReaperSpec == ReaperInit /\ [][ReaperNext]_vars

\* the reaper's thread and the escalation threads are scheduled, and the
\* kernel ends a process that was sent SIGKILL; nothing obliges a signal to
\* arrive or a process to end otherwise
ReaperFairSpec ==
  /\ ReaperInit /\ [][ReaperNext]_vars
  /\ WF_vars(Take)
  /\ WF_vars(Reap)
  /\ \A i \in 1..MaxSignals : WF_vars(Escalate(i))
  /\ WF_vars(WorkerSignaled(SIGKILL))

\* ------------------------------------------------- the overlay jail
\* tmpdir.rs as built for Linux. jail.fs holds the paths that exist under
\* /tmp/<uuid>, jail.mounts the mounts made on them, jail.this says that the
\* TmpDir value exists (so leaving new() or its owner's scope runs drop),
\* jail.busy that a process has its root or working directory in merged/.

besideJail == <<handlerVars, reaperVars, disk, handler, service>>

JailInit ==
  /\ NoRequest
  /\ NoReaper
  /\ NoPair
  /\ jail = [at |-> "create_base", fs |-> {}, mounts |-> {}, this |-> FALSE,
             busy |-> FALSE, result |-> "none", log |-> <<>>]

\* `?` on an Err: new() returns it; a TmpDir that already exists is dropped
Raise(j) ==
  [j EXCEPT !.result = "Err", !.at = IF j.this THEN "umount_proc" ELSE "done"]

\* one fallible call of new(): it succeeds with effect `after` or fails
NewStep(at, after) ==
  /\ jail.at = at
  /\ \E ok \in BOOLEAN : jail' = IF ok THEN after ELSE Raise(jail)
  /\ UNCHANGED besideJail

\* line 18
CreateBase ==
  NewStep("create_base", [jail EXCEPT !.fs = @ \cup {"base"}, !.at = "create_upper"])

\* line 21
CreateUpper ==
  NewStep("create_upper", [jail EXCEPT !.fs = @ \cup {"upper"}, !.at = "create_work"])

\* line 23
CreateWork ==
  NewStep("create_work", [jail EXCEPT !.fs = @ \cup {"work"}, !.at = "create_merged"])

\* lines 25-30: merged/ is created, then the TmpDir value is built
CreateMerged ==
  NewStep("create_merged",
          [jail EXCEPT !.fs = @ \cup {"merged"}, !.this = TRUE, !.at = "mount_overlay"])

\* lines 47-53
MountOverlay ==
  NewStep("mount_overlay", [jail EXCEPT !.mounts = @ \cup {"overlay"}, !.at = "mount_proc"])

\* lines 54-60
MountProc ==
  NewStep("mount_proc", [jail EXCEPT !.mounts = @ \cup {"proc"}, !.at = "mknod_null"])

\* lines 63-68: the node is created through merged/, so it lands in upper/
MknodNull ==
  NewStep("mknod_null", [jail EXCEPT !.fs = @ \cup {"upper/dev/null"}, !.at = "mknod_urandom"])

\* lines 70-77: the last call, then Ok(this)
MknodUrandom ==
  NewStep("mknod_urandom",
          [jail EXCEPT !.fs = @ \cup {"upper/dev/urandom"}, !.result = "Ok", !.at = "held"])

\* a process enters the jail through chroot() (lines 81-83), or leaves it
Occupy ==
  /\ jail.at = "held"
  /\ ~jail.busy
  /\ jail' = [jail EXCEPT !.busy = TRUE]
  /\ UNCHANGED besideJail

Vacate ==
  /\ jail.busy
  /\ jail.at # "done"
  /\ jail' = [jail EXCEPT !.busy = FALSE]
  /\ UNCHANGED besideJail

\* the owner writes a file below chroot(); the overlay stores it in upper/
WriteInJail ==
  /\ jail.at = "held"
  /\ "upper/file" \notin jail.fs
  /\ jail' = [jail EXCEPT !.fs = @ \cup {"upper/file"}]
  /\ UNCHANGED besideJail

\* the owner of the jail lets it go: drop begins
Release ==
  /\ jail.at = "held"
  /\ jail' = [jail EXCEPT !.at = "umount_proc"]
  /\ UNCHANGED besideJail

\* one step of drop: the call returns err, which is logged, and drop goes on
DropStep(at, err, after, nxt) ==
  /\ jail.at = at
  /\ jail' = [(IF err = "ok" THEN after ELSE jail) EXCEPT
                !.log = Append(@, [step |-> at, err |-> err]), !.at = nxt]
  /\ UNCHANGED besideJail

\* lines 91-93 if the error were returned instead of logged
UmountProcRaising ==
  \E env \in BOOLEAN :
    LET err == IF "proc" \notin jail.mounts THEN "EINVAL"
               ELSE IF env THEN "ok" ELSE "EBUSY"
    IN DropStep("umount_proc", err, [jail EXCEPT !.mounts = @ \ {"proc"}],
                IF err = "ok" THEN "umount_overlay" ELSE "done")

\* lines 91-93
UmountProc ==
  \E env \in BOOLEAN :
    LET err == IF "proc" \notin jail.mounts THEN "EINVAL"
               ELSE IF env THEN "ok" ELSE "EBUSY"
    IN DropStep("umount_proc", err, [jail EXCEPT !.mounts = @ \ {"proc"}], "umount_overlay")

\* lines 94-96: a mount with a mount inside it, or in use, cannot be detached
UmountOverlay ==
  LET err == IF "overlay" \notin jail.mounts THEN "EINVAL"
             ELSE IF "proc" \in jail.mounts \/ jail.busy THEN "EBUSY" ELSE "ok"
  IN DropStep("umount_overlay", err, [jail EXCEPT !.mounts = @ \ {"overlay"}], "remove_dir_all")

\* what the directories next to merged/ hold
Siblings == {{"work"}, {"upper", "upper/dev/null", "upper/dev/urandom", "upper/file"}}

\* lines 98-100: remove_dir_all deletes entry after entry and stops at the
\* first error, so a failed removal may have deleted the directories it
\* visited before; a mount point cannot be removed
RemoveBase ==
  /\ jail.at = "remove_dir_all"
  /\ \E env \in BOOLEAN, visited \in SUBSET Siblings :
       LET err == IF jail.mounts # {} \/ ~env THEN "EBUSY" ELSE "ok"
       IN jail' = [jail EXCEPT
                     !.fs = IF err = "ok" THEN {} ELSE @ \ UNION visited,
                     !.log = Append(@, [step |-> "remove_dir_all", err |-> err]),
                     !.at = "done"]
  /\ UNCHANGED besideJail

JailNext ==
  \/ CreateBase \/ CreateUpper \/ CreateWork \/ CreateMerged
  \/ MountOverlay \/ MountProc \/ MknodNull \/ MknodUrandom
  \/ Occupy \/ Vacate \/ WriteInJail \/ Release
  \/ UmountProc \/ UmountOverlay \/ RemoveBase

JailSpec == JailInit /\ [][JailNext]_vars

\* ------------------------------------------- two requests at once
\* The handlers of two requests interleave on the /tmp they share. Each runs
\* the steps of run() that touch it: TmpDir::new, the writes of asserts.json,
\* the checker and the solution below its own path, and the drop of its
\* TmpDir on whatever path it leaves.

\* how many values Uuid::new_v4() can return
NumUuids == 2

Uuids == 1..NumUuids
Requests == {1, 2}

besidePair == <<handlerVars, reaperVars, jail, service>>

PairInit ==
  /\ NoRequest
  /\ NoReaper
  /\ NoJail
  /\ disk = [u \in Uuids |-> None]
  /\ handler = [r \in Requests |-> [at |-> "new", path |-> None]]
  /\ service = "up"

\* the writes between TmpDir::new and the spawn, in the order of run()
StageAfter(at) ==
  CASE at = "asserts.json" -> "checker"
    [] at = "checker" -> "solution"
    [] at = "solution" -> "run"

\* TmpDir::new with create_dir_all in place of create_dir: an existing
\* directory is taken over
NewTmpDirExisting(r) ==
  /\ handler[r].at = "new"
  /\ \E u \in Uuids :
       /\ disk' = IF disk[u] = None THEN [disk EXCEPT ![u] = Some({})] ELSE disk
       /\ handler' = [handler EXCEPT ![r] = [at |-> "asserts.json", path |-> Some(u)]]
  /\ UNCHANGED besidePair

\* main.rs lines 35-40: create_dir fails if /tmp/<uuid> exists already, and
\* the handler answers 500 without a TmpDir
NewTmpDir(r) ==
  /\ handler[r].at = "new"
  /\ \E u \in Uuids :
       IF disk[u] = None
       THEN /\ disk' = [disk EXCEPT ![u] = Some({})]
            /\ handler' = [handler EXCEPT ![r] = [at |-> "asserts.json", path |-> Some(u)]]
       ELSE /\ handler' = [handler EXCEPT ![r].at = "done"]
            /\ UNCHANGED disk
  /\ UNCHANGED besidePair

\* fs::write of the next file below the handler's own tmp.path()
WriteFile(r) ==
  /\ handler[r].at \in {"asserts.json", "checker", "solution"}
  /\ LET u == handler[r].path[1]
         name == handler[r].at
     IN IF disk[u] # None
        THEN /\ disk' = [disk EXCEPT ![u] =
                  Some({f \in disk[u][1] : f.name # name} \cup {[name |-> name, by |-> r]})]
             /\ handler' = [handler EXCEPT ![r].at = StageAfter(name)]
        ELSE \* the directory is gone: the write fails, 500, the TmpDir is dropped
             /\ handler' = [handler EXCEPT ![r].at = "done"]
             /\ UNCHANGED disk
  /\ UNCHANGED besidePair

\* the handler returns (response, error, timeout, cancellation): drop runs
\* remove_dir_all on its path; a failure is logged and the directory stays
Leave(r) ==
  /\ handler[r].at \in {"asserts.json", "checker", "solution", "run"}
  /\ \E rmok \in BOOLEAN :
       disk' = IF rmok THEN [disk EXCEPT ![handler[r].path[1]] = None] ELSE disk
  /\ handler' = [handler EXCEPT ![r].at = "done"]
  /\ UNCHANGED besidePair

NewTmpDirAny == \E r \in Requests : NewTmpDir(r)
WriteFileAny == \E r \in Requests : WriteFile(r)
LeaveAny == \E r \in Requests : Leave(r)

PairNext == NewTmpDirAny \/ WriteFileAny \/ LeaveAny

PairSpec == PairInit /\ [][PairNext]_vars

\* ------------------------------------- the service and its requests
\* The two handlers are tasks of one process. Lines 418-426: the wait of a
\* request timed out and killpg returned Err, so the handler calls
\* std::process::exit(1). The process ends there: no destructor runs, and
\* the task of the other request ends with it wherever it stands.
KillFails(r) ==
  /\ service = "up"
  /\ handler[r].at = "run"
  /\ service' = "exited"
  /\ handler' = [handler EXCEPT ![r].at = "exit"]
  /\ UNCHANGED <<disk, handlerVars, reaperVars, jail>>

KillFailsAny == \E r \in Requests : KillFails(r)

\* a handler takes a step only while the process lives
HandlersStep == service = "up" /\ PairNext

ServiceNext == HandlersStep \/ KillFailsAny

ServiceSpec == PairInit /\ [][ServiceNext]_vars

\* ------------------------------------------------------------- properties
Has(seq, x) == \E i \in 1..Len(seq) : seq[i] = x

Finished == pc = "done"

\* the child wants to write to stream s and the pipe of s is full
BlockedOn(s) ==
  /\ child.state = "running"
  /\ childProg # <<>>
  /\ Head(childProg).fd = s
  /\ Len(pipe[s]) >= PipeCap

\* the timeout string of the request is absent or well formed
TimeoutWellFormed == req.timeout = None \/ ParseDuration(req.timeout[1]) >= 0

\* C1: once the handler has finished, on whatever path, a scratch directory
\* that was created for the request no longer exists (a remove_dir_all that
\* itself failed is set aside).
C1_JailGoneOnEveryPath ==
  (Finished /\ Has(ops, "create_dir:tmp") /\ ~rmFailed) => tmp # "exists"

\* C1: the path on which the claim fails: the timeout fired, killpg failed,
\* the process exited and the scratch directory is still there.
C1_FailedKillLeavesJail ==
  Finished /\ outcome = "process_exit" /\ timedOut /\ tmp = "exists"

\* C2: when the timeout expires with the child still running, SIGKILL goes to
\* the child's process group and the request ends with 408 "timelimit
\* exceeded", never otherwise; SIGKILL is sent to the group only after a
\* timeout, which fires no earlier than the request's timeout (30 s by default).
C2_TimeoutKillsGroupThen408 ==
  /\ (Finished /\ timedOut) =>
        /\ killSent
        /\ resp = ErrorResponse(408, "timelimit exceeded")
  /\ killSent => timedOut
  /\ timedOut =>
        elapsed >= (IF req.timeout = None THEN 30 ELSE ParseDuration(req.timeout[1]))

\* C2: the timeout fired and the request ended with no 408.
C2_TimeoutWithout408 ==
  Finished /\ timedOut /\ resp = None /\ ~killSent

\* C3 (state part): whenever the handler is suspended on the wait or on a
\* join, both drainers have been started; and a child blocked on a full pipe
\* while the handler waits has a running drainer on that pipe.
C3_DrainersRunWhileWaiting ==
  /\ pc \in {"wait", "join_stdout", "join_stderr"} =>
        \A s \in Streams : drainer[s].state # "none"
  /\ \A s \in Streams :
        (pc = "wait" /\ BlockedOn(s)) => (drainer[s].state = "running" /\ pipe[s] # <<>>)

\* C3: the drainers run beside the wait in every reachable state, and a child
\* blocked on a full stdout or stderr pipe is never blocked forever: it always
\* gets to leave that state.
C3_NeverBlockedForever ==
  /\ []C3_DrainersRunWhileWaiting
  /\ \A s \in Streams : BlockedOn(s) ~> ~BlockedOn(s)

\* C3: the child is blocked on a full stdout pipe with more output to come
\* while the handler is suspended on the wait.
C3_ChildBlockedWhileWaiting ==
  pc = "wait" /\ BlockedOn("out") /\ Len(wrote["out"]) >= PipeCap

\* C4: a request whose child exited before the timeout answers with stdout
\* and stderr equal, byte for byte, to what the child wrote on each stream.
C4_OutputByteForByte ==
  (Finished /\ outcome = "response" /\ exit_status # None) =>
     /\ resp[1].json # None
     /\ Utf8Encode(resp[1].json[1].stdout) = wrote["out"]
     /\ Utf8Encode(resp[1].json[1].stderr) = wrote["err"]

\* C4: the child wrote a byte sequence that is not UTF-8, exited before the
\* timeout, and the request ended with no Response.
C4_BinaryOutputLost ==
  /\ Finished /\ outcome = "response" /\ exit_status # None
  /\ ~Utf8Valid(wrote["out"])
  /\ resp[1].status = 500

\* C5: a request whose child exited before the timeout ends with 200 and
\* exit_code = the child's exit code, absent exactly for a death by signal.
C5_ExitStatusIsData ==
  (Finished /\ outcome = "response" /\ exit_status # None) =>
     /\ resp[1].status = 200
     /\ resp[1].json # None
     /\ resp[1].json[1].exit_code = ExitCode(child.status[1])
     /\ (resp[1].json[1].exit_code = None) <=> (child.status[1].kind = "signaled")

\* C5: the child exited with code 0 before the timeout and the request ended
\* with 500.
C5_CleanExitAnswered500 ==
  /\ Finished /\ outcome = "response"
  /\ exit_status = Some([kind |-> "exited", code |-> 0])
  /\ resp[1].status = 500

\* C6: with checker_text absent (and a well-formed timeout), the request is
\* answered 400 "checker_text is required" exactly for the compiled languages
\* Cpp, Csharp, Dart, Golang, Haskell, Java, Kotlin, Rust, Swift; for any
\* other language it is not answered 400.
C6_CheckerRequiredFor ==
  (Finished /\ req.checker_text = None /\ TimeoutWellFormed) =>
     IF req.lang_slug \in {"cpp", "csharp", "dart", "golang", "haskell", "java",
                           "kotlin", "rust", "swift"}
     THEN resp = ErrorResponse(400, "checker_text is required")
     ELSE resp = None \/ resp[1].status # 400

\* C6: a swift request without checker_text was answered, and not with
\* "checker_text is required".
C6_SwiftRejectedByDecoder ==
  /\ Finished /\ req.lang_slug = "swift" /\ req.checker_text = None
  /\ resp = ErrorResponse(400, "json deserialize error")

\* C7: a request answered 400 has performed no filesystem action: no scratch
\* directory was created, nothing was written or linked, no child was spawned.
C7_BadRequestBeforeFilesystem ==
  (resp # None /\ resp[1].status = 400) =>
     /\ ops = <<>>
     /\ tmp = "none"
     /\ files = {}
     /\ child.state = "none"

\* C7: a request was answered 400 for a missing mandatory checker_text.
C7_MissingCheckerRejected ==
  /\ resp = ErrorResponse(400, "checker_text is required")
  /\ CheckerRequired(req.lang_slug)

\* C8: a request that passed validation and ended before a child was spawned
\* (an I/O failure in jail creation or materialization, or a failed spawn)
\* ended with 500 "internal error" and its scratch directory dropped.
C8_SetupFailureIs500 ==
  (Finished /\ ~Has(ops, "spawn") /\ (resp = None \/ resp[1].status # 400)) =>
     /\ resp = InternalError
     /\ (tmp = "exists" => rmFailed)

\* C8: the spawn failed and the request ended without any response.
C8_FailedSpawnPanics ==
  Finished /\ outcome = "panic" /\ resp = None /\ ~Has(ops, "spawn") /\ Has(ops, "write")

\* C9: the child execs only after unshare, chroot and chdir, in that order.
C9_ExecOnlyInsideJail ==
  \A i \in 1..Len(childTrace) :
     childTrace[i] = "exec" =>
       \E a, b, c \in 1..Len(childTrace) :
          /\ a < b /\ b < c /\ c < i
          /\ childTrace[a] = "unshare"
          /\ childTrace[b] = "chroot"
          /\ childTrace[c] = "chdir"

\* C9: a child is running make that never entered a chroot.
C9_ChildRunsOnHostRoot ==
  child.state = "running" /\ Has(childTrace, "exec") /\ ~Has(childTrace, "chroot")

\* C10: once the solution is written, the scratch directory holds exactly one
\* file with the solution text, named as the spec's table names it (js and ts
\* both solution.js), inside lib/ for dart and check/ otherwise.
C10_SolutionFilePerTable ==
  pc = "spawn" =>
    {e \in files : e.kind = "file" /\ e.content = req.solution_text} =
      {Entry(IF req.lang_slug = "dart" THEN "lib" ELSE "check",
             CASE req.lang_slug = "clojure" -> "solution.clj"
               [] req.lang_slug = "cpp" -> "solution.cpp"
               [] req.lang_slug = "csharp" -> "Solution.cs"
               [] req.lang_slug = "dart" -> "solution.dart"
               [] req.lang_slug = "elixir" -> "solution.exs"
               [] req.lang_slug = "golang" -> "solution.go"
               [] req.lang_slug = "haskell" -> "Solution.hs"
               [] req.lang_slug = "java" -> "Solution.java"
               [] req.lang_slug \in {"js", "ts"} -> "solution.js"
               [] req.lang_slug = "kotlin" -> "solution.kt"
               [] req.lang_slug = "php" -> "solution.php"
               [] req.lang_slug = "python" -> "solution.py"
               [] req.lang_slug = "ruby" -> "solution.rb"
               [] req.lang_slug = "rust" -> "solution.rs"
               [] req.lang_slug = "swift" -> "solution.swift",
             "file", req.solution_text)}

\* C10: a ts request has its solution written as check/solution.ts.
C10_TsWrittenAsTs ==
  /\ pc = "spawn" /\ req.lang_slug = "ts"
  /\ Entry("check", "solution.ts", "file", req.solution_text) \in files

\* the handler has materialized the submission and not yet dropped the directory
Materialized == pc \in {"spawn", "start_drainers", "wait", "join_stdout", "join_stderr"}

\* C11: for a request that reaches the spawn step, the scratch directory holds
\* a file with the checker text if and only if the table lists a checker file
\* for the language and checker_text was provided; that file then is the
\* table's checker file in the sources subdirectory. No request reaches the
\* spawn step with a listed checker and no checker_text.
C11_CheckerFileIffListedAndGiven ==
  Materialized =>
    LET lang == req.lang_slug
        listed == CASE lang = "cpp" -> Some("checker.cpp")
                    [] lang = "csharp" -> Some("Checker.cs")
                    [] lang = "dart" -> Some("checker.dart")
                    [] lang = "golang" -> Some("checker.go")
                    [] lang = "haskell" -> Some("Checker.hs")
                    [] lang = "java" -> Some("Checker.java")
                    [] lang = "kotlin" -> Some("checker.kt")
                    [] lang = "rust" -> Some("checker.rs")
                    [] lang = "swift" -> Some("checker.swift")
                    [] OTHER -> None
        written == {e \in files : e.kind = "file" /\ e.name \notin {"asserts.json"}
                                  /\ e.content # req.solution_text}
    IN /\ listed # None => req.checker_text # None
       /\ written =
            IF listed # None /\ req.checker_text # None
            THEN {Entry(IF lang = "dart" THEN "lib" ELSE "check", listed[1], "file",
                        req.checker_text[1])}
            ELSE {}

\* C11: a golang request reached the spawn step with its checker_text written
\* as check/checker.go.
C11_GolangCheckerWritten ==
  /\ pc = "spawn"
  /\ req.lang_slug = "golang"
  /\ Entry("check", "checker.go", "file", "C") \in files

\* C19: every request whose child was spawned eventually finishes, whatever
\* the child's process tree does.
C19_SpawnedRequestFinishes == Has(ops, "spawn") ~> Finished

\* C19: the child has exited before the timeout, its descendant still holds
\* the pipes, and the handler is suspended on the stdout join.
C19_JoinHeldByDescendant ==
  /\ pc = "join_stdout"
  /\ child.state = "exited"
  /\ desc = "running"
  /\ drainer["out"].state = "running"

\* C20: the scratch directory is removed only after the child spawned for the
\* request, and every member of its process group, has terminated.
C20_TeardownAfterChild ==
  tmp = "removed" => (child.state # "running" /\ desc # "running")

\* C20: the handler answered 408 and removed the scratch directory while the
\* child had not yet died.
C20_RemovedWhileChildRuns ==
  /\ tmp = "removed"
  /\ child.state = "running"
  /\ resp = ErrorResponse(408, "timelimit exceeded")

\* C13: the reaper has exited only with the worker's exit status after
\* reaping the normally exited worker, with 128 + the signal number after
\* reaping the signal-killed worker, or with 1 after a failure of wait() or
\* the end of the signal stream; reaping another child never ends it.
C13_ReaperExitCodes ==
  rpc = "exited" =>
    \/ /\ failure = "none"
       /\ worker.state = "reaped"
       /\ worker.status[1].kind = "Exited"
       /\ rexit = Some(worker.status[1].n)
    \/ /\ failure = "none"
       /\ worker.state = "reaped"
       /\ worker.status[1].kind = "Signaled"
       /\ rexit = Some(128 + worker.status[1].n)
    \/ /\ failure \in {"wait", "stream"}
       /\ rexit = Some(1)

\* the worker was killed by the escalation's SIGKILL, the reaper exited 137
C13_ExitedWithSignalCode ==
  /\ rpc = "exited"
  /\ failure = "none"
  /\ worker.status = Some(Signaled(SIGKILL))
  /\ rexit = Some(128 + SIGKILL)
  /\ orphans.seen > orphans.alive + orphans.zombie

\* C14: while the reaper runs, an orphan that has exited is eventually
\* reaped, however child exits and signal deliveries interleave.
C14_ExitedOrphansReaped ==
  (orphans.zombie > 0) ~> (orphans.zombie = 0 \/ rpc = "exited")

\* an exited orphan is left while the reaper waits for a signal that nobody
\* has sent
C14_ZombieLeftWithReaperIdle ==
  /\ rpc = "forever"
  /\ pending = {}
  /\ orphans.zombie > 0

\* C15: once the worker has terminated the reaper eventually reaps it and
\* exits, and after a SIGINT or SIGTERM delivered to the reaper the worker
\* is eventually terminated and the reaper eventually exits (the exit of
\* PID 1 ends every process of the container).
C15_ReaperExitsAfterWorker ==
  /\ (worker.state = "zombie") ~> (rpc = "exited")
  /\ (delivered > 0) ~> (rpc = "exited")

\* the worker has terminated and the reaper waits for a signal that nobody
\* has sent
C15_WorkerZombieReaperIdle ==
  /\ worker.state = "zombie"
  /\ rpc = "forever"
  /\ pending = {}
  /\ failure = "none"

\* C16: what each escalation thread has sent to the worker is a prefix of
\* SIGINT, 2 s, SIGTERM, 2 s, SIGKILL for a received SIGINT and of SIGTERM,
\* 2 s, SIGKILL for a received SIGTERM, and all of it once the thread is
\* through; a thread starts only in the step in which the reaper takes a
\* SIGINT or SIGTERM, and in that step the reaper moves on to wait() with
\* the thread not yet having sent anything.
C16_EscalationOrder ==
  /\ [](LET listed(s) ==
              IF s = SIGINT
              THEN <<[sig |-> SIGINT, after |-> 0], [sig |-> SIGTERM, after |-> 2],
                     [sig |-> SIGKILL, after |-> 4]>>
              ELSE <<[sig |-> SIGTERM, after |-> 0], [sig |-> SIGKILL, after |-> 2]>>
            prefix(p, q) == Len(p) <= Len(q) /\ \A k \in 1..Len(p) : p[k] = q[k]
        IN \A i \in 1..Len(threads) :
             /\ threads[i].s \in {SIGINT, SIGTERM}
             /\ prefix(threads[i].log, listed(threads[i].s))
             /\ threads[i].at = "done" => threads[i].log = listed(threads[i].s))
  /\ [][Len(threads') > Len(threads) =>
          \E s \in {SIGINT, SIGTERM} :
            /\ s \in pending /\ s \notin pending'
            /\ threads' = Append(threads, [s |-> s, at |-> "begin", slept |-> 0, log |-> <<>>])
            /\ rpc = "forever" /\ rpc' = "wait"]_vars
  /\ [][(SIGCHLD \in pending /\ SIGCHLD \notin pending') => threads' = threads]_vars

\* a SIGTERM thread has sent SIGTERM and SIGKILL while the reaper sits in
\* wait()
C16_TermEscalationDone ==
  /\ rpc = "wait"
  /\ \E i \in 1..Len(threads) :
       /\ threads[i].s = SIGTERM
       /\ threads[i].log = <<[sig |-> SIGTERM, after |-> 0], [sig |-> SIGKILL, after |-> 2]>>

\* C17: when new() has returned an error, and no unmount or removal of the
\* cleanup was refused by the system, nothing of the jail is left: the base
\* directory does not exist and nothing is mounted.
C17_FailedNewLeavesNothing ==
  (/\ jail.result = "Err"
   /\ jail.at = "done"
   /\ \A k \in 1..Len(jail.log) : jail.log[k].err \in {"ok", "EINVAL"})
  => (jail.fs = {} /\ jail.mounts = {})

\* create_dir of work/ failed: new() returned Err, no drop ran, base/ and
\* upper/ stay
C17_BaseLeftAfterFailedCreate ==
  /\ jail.result = "Err"
  /\ jail.at = "done"
  /\ jail.log = <<>>
  /\ jail.fs = {"base", "upper"}

\* C18: drop attempts umount merged/proc, umount merged/ and the recursive
\* removal of the base directory in this order, each whatever the earlier
\* ones returned, and it always completes: a failure is logged only.
C18_DropAttemptsAllInOrder ==
  LET steps == <<"umount_proc", "umount_overlay", "remove_dir_all">>
      n == Len(jail.log)
  IN /\ n <= 3
     /\ \A k \in 1..n : jail.log[k].step = steps[k]
     /\ (jail.at = "done" /\ jail.this) => n = 3
     /\ jail.at \in {"umount_proc", "umount_overlay", "remove_dir_all"} =>
          (n < 3 /\ jail.at = steps[n + 1])

\* both unmounts failed and the removal was attempted all the same
C18_RemovalTriedAfterFailedUnmounts ==
  /\ jail.at = "done"
  /\ Len(jail.log) = 3
  /\ jail.log[1].err = "EBUSY"
  /\ jail.log[2].err = "EBUSY"
  /\ jail.log[3].step = "remove_dir_all"

\* C12: of two requests handled at once, as long as both hold a jail the
\* two directories differ, and the directory of each exists and holds
\* exactly the files that request has written so far: no file of the other
\* request is in it and no drop of the other request has removed it.
C12_JailsDisjoint ==
  LET holds(r) == handler[r].at \in {"asserts.json", "checker", "solution", "run"}
      wrote_(r) ==
        CASE handler[r].at = "asserts.json" -> {}
          [] handler[r].at = "checker" -> {"asserts.json"}
          [] handler[r].at = "solution" -> {"asserts.json", "checker"}
          [] handler[r].at = "run" -> {"asserts.json", "checker", "solution"}
  IN /\ (holds(1) /\ holds(2)) => handler[1].path # handler[2].path
     /\ \A r \in Requests :
          holds(r) =>
            /\ disk[handler[r].path[1]] # None
            /\ disk[handler[r].path[1]][1] = {[name |-> n, by |-> r] : n \in wrote_(r)}

\* request 1 has dropped its jail while request 2 still holds its own, with
\* its three files in it
C12_OtherJailSurvivesDrop ==
  /\ handler[1].at = "done"
  /\ handler[1].path # None
  /\ disk[handler[1].path[1]] = None
  /\ handler[2].at = "run"
  /\ Cardinality(disk[handler[2].path[1]][1]) = 3

\* C21: no outcome of handling one request ends the service process: it
\* is up in every state, whatever the two handlers have gone through.
C21_ServiceOutlivesRequests == service = "up"

\* request 1 ended the process after its failed group kill while request 2
\* was waiting for its child: request 2 is never answered and both
\* directories stay in /tmp
C21_OtherRequestLost ==
  /\ service = "exited"
  /\ handler[1].at = "exit"
  /\ handler[2].at = "run"
  /\ disk[handler[1].path[1]] # None
  /\ disk[handler[2].path[1]] # None

====
